---- MODULE Spec2Model ----
(***************************************************************************)
(* State-machine model of the NanoKicker control core:                     *)
(*   src/src/motherboard.py  (class Motherboard: the Link, the Registry    *)
(*                            and Discovery)                               *)
(*   src/src/nanokicker.py   (class NanoKicker: the Device Handle)         *)
(* One Motherboard object, the serial transports it opened, the NanoKicker *)
(* objects it created, and a caller that invokes the public methods one at *)
(* a time.  The serial port (pyserial) is the environment: every open,     *)
(* write and read draws its outcome from a small set.                      *)
(***************************************************************************)
EXTENDS Integers, Sequences, FiniteSets, TLC

(***************************************************************************)
(* Bounds of the model.                                                    *)
(***************************************************************************)
\* number of method calls made on the objects after construction
MaxSteps == 2

(***************************************************************************)
(* Python values.  None, and ints as hi * 65536 + lo so that the unsigned  *)
(* 32-bit range of the wire (up to 4294967295) is representable; an int    *)
(* is in range for struct format "I" iff 0 <= hi <= 65535.                 *)
(***************************************************************************)
None == [t |-> "None"]

PyInt(hi, lo) == [t |-> "int", hi |-> hi, lo |-> lo]

PyBool(b) == [t |-> "bool", b |-> b]

\* a Python float that is exactly a single-precision value: sign, biased
\* exponent, mantissa
PyFloat(s, e, m) == [t |-> "float", s |-> s, e |-> e, m |-> m]

MAX_DEVICES == 20

ERROR_RESPONSE_MINUS_1 == PyInt(11570, 3337)    \* 758254857

ERROR_RESPONSE_MINUS_2 == PyInt(65279, 65535)   \* 4278190079

ERROR_RESPONSE_MINUS_3 == PyInt(11570, 3339)    \* 758254859

(***************************************************************************)
(* struct.pack / struct.unpack                                             *)
(***************************************************************************)
\* the 4 bytes decoded in little-endian order (format "<I")
unpack_I_little(b) == PyInt(b[4] * 256 + b[3], b[2] * 256 + b[1])

\* struct.unpack(">I", b)[0] for a 4-byte sequence b
unpack_I(b) == PyInt(b[1] * 256 + b[2], b[3] * 256 + b[4])

\* the 4 bytes of the int in little-endian order (format "<I")
pack_I_little(v) == << v.lo % 256, v.lo \div 256, v.hi % 256, v.hi \div 256 >>

\* the 4 big-endian bytes of an in-range int
pack_I(v) == << v.hi \div 256, v.hi % 256, v.lo \div 256, v.lo % 256 >>

\* struct.pack(">BBI", device_id, action, value): ok = FALSE is struct.error
\* (a field out of the range of its format, or a value that is no int)
pack_BBI(device_id, action, value) ==
    IF /\ device_id \in 0..255
       /\ action \in 0..255
       /\ value.t = "int"
       /\ value.hi \in 0..65535
    THEN [ok |-> TRUE, bytes |-> << device_id, action >> \o pack_I(value)]
    ELSE [ok |-> FALSE, bytes |-> << >>]

\* bytes.decode("utf-8") succeeds (strict decoding)
Cont(c) == c \in 128..191

RECURSIVE Utf8Valid(_)
Utf8Valid(b) ==
    IF b = << >> THEN TRUE
    ELSE LET c == Head(b)
             n == Len(b)
         IN  IF c < 128 THEN Utf8Valid(Tail(b))
             ELSE IF c \in 194..223
                  THEN n >= 2 /\ Cont(b[2]) /\ Utf8Valid(SubSeq(b, 3, n))
             ELSE IF c \in 224..239
                  THEN /\ n >= 3
                       /\ b[2] \in (IF c = 224 THEN 160..191
                                    ELSE IF c = 237 THEN 128..159
                                    ELSE 128..191)
                       /\ Cont(b[3])
                       /\ Utf8Valid(SubSeq(b, 4, n))
             ELSE IF c \in 240..244
                  THEN /\ n >= 4
                       /\ b[2] \in (IF c = 240 THEN 144..191
                                    ELSE IF c = 244 THEN 128..143
                                    ELSE 128..191)
                       /\ Cont(b[3])
                       /\ Cont(b[4])
                       /\ Utf8Valid(SubSeq(b, 5, n))
             ELSE FALSE

\* the test  "error" in line
HasError(b) ==
    \E i \in 1..Len(b) :
        /\ i + 4 <= Len(b)
        /\ SubSeq(b, i, i + 4) = << 101, 114, 114, 111, 114 >>

(***************************************************************************)
(* The Motherboard object together with the transports it opened.          *)
(*   port, serial, disconnect_callback : the fields of Motherboard         *)
(*   open    : ids of the serial.Serial objects whose port is open         *)
(*   opened  : number of serial.Serial objects created so far              *)
(*   calls   : number of times disconnect_callback was invoked             *)
(*   log     : what the current method call did on the transport and the   *)
(*             diagnostics it reported                                     *)
(***************************************************************************)
Serial(id) == [t |-> "Serial", id |-> id]

Str(v) == [t |-> "str", v |-> v]

Ev(e, data) == [e |-> e, data |-> data]

Log(m, ev) == [m EXCEPT !.log = Append(@, ev)]

\* the diagnostics the methods report with print()
print(m, msg) == Log(m, Ev("print", msg))

\* self.serial and self.serial.is_open
is_connected(m) == m.serial # None /\ m.serial.id \in m.open

\* connect leaves the replaced serial.Serial object open
release_leak(m, old) == m

\* What rebinding self.serial does to the serial.Serial object it referred
\* to: the object has no other reference, is freed by the assignment, and
\* its destructor closes its port.
release(m, old) == IF old = None THEN m ELSE [m EXCEPT !.open = @ \ {old.id}]

\* Motherboard.connect.  ok: serial.Serial(port) opens the port; otherwise
\* it raises serial.SerialException.
connect(m, ok) ==
    IF m.port = None
    THEN print(m, "Error: No serial port specified or found.")
    ELSE IF ok
    THEN LET id == m.opened + 1
             m1 == Log([m EXCEPT !.open = @ \cup {id}, !.opened = id],
                       Ev("open", << id >>))
         IN  release([m1 EXCEPT !.serial = Serial(id)], m.serial)
    ELSE print(release([m EXCEPT !.serial = None], m.serial),
               "Error opening serial port")

\* disconnect closes the port and keeps self.serial
disconnect_keep(m) ==
    IF is_connected(m)
    THEN [Log(m, Ev("close", << m.serial.id >>))
            EXCEPT !.open = @ \ {m.serial.id}]
    ELSE m

\* disconnect invokes the disconnect callback itself
disconnect_notify(m) ==
    IF is_connected(m)
    THEN LET m1 == [Log(m, Ev("close", << m.serial.id >>))
                      EXCEPT !.open = @ \ {m.serial.id}, !.serial = None]
         IN  IF m1.disconnect_callback
             THEN [Log(m1, Ev("disconnect_callback", << >>))
                     EXCEPT !.calls = @ + 1]
             ELSE m1
    ELSE m

\* Motherboard.disconnect
disconnect(m) ==
    IF is_connected(m)
    THEN [Log(m, Ev("close", << m.serial.id >>))
            EXCEPT !.open = @ \ {m.serial.id}, !.serial = None]
    ELSE m

RECURSIVE send_command(_, _, _, _, _, _)

\* self.disconnect_callback(): the callback is the caller's; handler names
\* what it does, "return" (nothing) or "send_command" (it calls
\* send_command(0, 21, read_response=True) on this Motherboard, and the
\* transport, if that call reaches it, times out)
callback(m, handler) ==
    LET m1 == [Log(m, Ev("disconnect_callback", << >>)) EXCEPT !.calls = @ + 1]
    IN  IF handler = "send_command"
        THEN send_command(m1, 0, 21, PyInt(0, 0), TRUE,
                          [fail |-> "none", data |-> << >>]).m
        ELSE m1

\* the handler invokes the callback without calling self.disconnect()
on_serial_exception_keep(m, handler) ==
    LET m1 == print(m, "Serial error during command send")
    IN  IF m1.serial # None /\ m1.disconnect_callback
        THEN callback(m1, handler)
        ELSE m1

\* the handler invokes the callback before it calls self.disconnect()
on_serial_exception_notify_first(m, handler) ==
    LET m1 == print(m, "Serial error during command send")
    IN  IF m1.serial # None
        THEN disconnect(IF m1.disconnect_callback THEN callback(m1, handler)
                        ELSE m1)
        ELSE m1

\* the handler of serial.SerialException in send_command
on_serial_exception(m, handler) ==
    LET m1 == print(m, "Serial error during command send")
    IN  IF m1.serial # None
        THEN LET m2 == disconnect(m1)
             IN  IF m2.disconnect_callback
                 THEN callback(m2, handler)
                 ELSE m2
        ELSE m1

\* send_command without the test at its entry
send_guard_missing(m) == TRUE

\* the test at the entry of send_command
send_guard(m) == is_connected(m)

Result(m, ret, exc) == [m |-> m, ret |-> ret, exc |-> exc]

\* send_command without the call of reset_input_buffer
reset_input_buffer_missing(m) == m

\* self.serial.reset_input_buffer()
reset_input_buffer(m) == Log(m, Ev("reset_input_buffer", << >>))

\* Motherboard.send_command.  env.fail names the transport call that raises
\* serial.SerialException: "write", "read" (serial.read or serial.readline)
\* or "none"; env.data are the bytes that serial.read(4) or
\* serial.readline() returns; env.handler is what the disconnect callback
\* does.  exc is the exception that leaves the method ("none": it returns
\* ret).
send_command(m, device_id, action, value, read_response, env) ==
    IF ~send_guard(m)
    THEN Result(print(m, "Error: Not connected to motherboard."), None, "none")
    ELSE
    LET command == pack_BBI(device_id, action, value) IN
    IF ~command.ok THEN Result(m, None, "struct.error")
    ELSE
    LET m1 == reset_input_buffer(m) IN
    IF env.fail = "write"
    THEN Result(on_serial_exception(m1, env.handler), None, "none")
    ELSE
    LET m2 == Log(m1, Ev("write", command.bytes)) IN
    LET m3 == Log(m2, Ev("flush", << >>)) IN
    IF env.fail = "read"
    THEN Result(on_serial_exception(m3, env.handler), None, "none")
    ELSE IF read_response
    THEN LET m4 == Log(m3, Ev("read", env.data))
         IN  IF Len(env.data) = 4
             THEN Result(m4, unpack_I(env.data), "none")
             ELSE IF Utf8Valid(env.data)
                  THEN Result(print(m4, "Motherboard (unexpected response)"),
                              None, "none")
                  ELSE Result(m4, None, "UnicodeDecodeError")
    ELSE LET m4 == Log(m3, Ev("readline", env.data))
         IN  IF ~Utf8Valid(env.data)
             THEN Result(m4, None, "UnicodeDecodeError")
             ELSE IF HasError(env.data)
                  THEN Result(print(m4, "Motherboard Error"), None, "none")
                  ELSE Result(m4, None, "none")

(***************************************************************************)
(* NanoKicker: the cached parameters of one device.                        *)
(***************************************************************************)
\* NanoKicker.__init__ (device_id already checked to be in 0..19)
NanoKicker(device_id) ==
    [device_id |-> device_id,
     mode |-> None, frequency |-> None, amplitude |-> None,
     startup_enabled |-> None, vin |-> None, vout |-> None,
     pot_range |-> None, r_g_trim |-> None, r_f_trim |-> None,
     wiper |-> None]

\* the check of NanoKicker.__init__: ValueError unless it holds
valid_device_id(device_id) == 0 <= device_id /\ device_id < 20

\* _float_to_int that loses the sign bit
float_to_int_unsigned(value) ==
    PyInt(value.e * 128 + value.m \div 65536, value.m % 65536)

\* struct.unpack("<I", struct.pack("<f", value))[0]: the bits of the float
\* as an unsigned integer, sign * 2^31 + exponent * 2^23 + mantissa
float_to_int(value) ==
    PyInt(value.s * 32768 + value.e * 128 + value.m \div 65536,
          value.m % 65536)

\* struct.unpack("<f", struct.pack("<I", value))[0]
int_to_float(value) ==
    PyFloat(value.hi \div 32768,
            (value.hi % 32768) \div 128,
            (value.hi % 128) * 65536 + value.lo)

\* A setter stores the value in the cache and then sends one command: each
\* operator gives the handle after the assignment and the command's action
\* and value.
Command(k, action, value) == [k |-> k, action |-> action, value |-> value]

set_mode(k, mode) == Command([k EXCEPT !.mode = mode], 1, mode)

\* set_frequency sends the command without storing the value
set_frequency_uncached(k, frequency) == Command(k, 2, frequency)

set_frequency(k, frequency) ==
    Command([k EXCEPT !.frequency = frequency], 2, frequency)

set_amplitude(k, amplitude) ==
    Command([k EXCEPT !.amplitude = amplitude], 3, float_to_int(amplitude))

set_wiper(k, wiper) == Command([k EXCEPT !.wiper = wiper], 4, wiper)

set_startup_enabled(k, enabled) ==
    Command([k EXCEPT !.startup_enabled = enabled], 11,
            PyInt(0, IF enabled.b THEN 1 ELSE 0))

set_vin(k, vin) == Command([k EXCEPT !.vin = vin], 12, float_to_int(vin))

set_vout(k, vout) == Command([k EXCEPT !.vout = vout], 13, float_to_int(vout))

set_pot_range(k, pot_range) ==
    Command([k EXCEPT !.pot_range = pot_range], 14, float_to_int(pot_range))

set_r_g_trim(k, trim) ==
    Command([k EXCEPT !.r_g_trim = trim], 15, float_to_int(trim))

set_r_f_trim(k, trim) ==
    Command([k EXCEPT !.r_f_trim = trim], 16, float_to_int(trim))

\* save_settings and load_settings send one command and store nothing
save_settings(k) == Command(k, 17, PyInt(0, 0))

load_settings(k) == Command(k, 18, PyInt(0, 0))

\* A getter sends one command with read_response = True and then updates the
\* cache from the response: each operator gives the handle after the getter
\* returned, for the response that send_command returned.
get_mode(k, response) == [k EXCEPT !.mode = response]

\* get_frequency stores the response as the mode as well
get_frequency_mode(k, response) ==
    IF response # None
    THEN [k EXCEPT !.frequency = response, !.mode = response] ELSE k

get_frequency(k, response) ==
    IF response # None THEN [k EXCEPT !.frequency = response] ELSE k

get_amplitude(k, response) ==
    IF response # None
    THEN [k EXCEPT !.amplitude = int_to_float(response)] ELSE k

get_wiper(k, response) ==
    IF response # None THEN [k EXCEPT !.wiper = response] ELSE k

get_startup_enabled(k, response) == [k EXCEPT !.startup_enabled = response]

get_vin(k, response) ==
    IF response # None THEN [k EXCEPT !.vin = int_to_float(response)] ELSE k

get_vout(k, response) ==
    IF response # None THEN [k EXCEPT !.vout = int_to_float(response)] ELSE k

get_pot_range(k, response) ==
    IF response # None
    THEN [k EXCEPT !.pot_range = int_to_float(response)] ELSE k

get_r_g_trim(k, response) ==
    IF response # None
    THEN [k EXCEPT !.r_g_trim = int_to_float(response)] ELSE k

get_r_f_trim(k, response) ==
    IF response # None
    THEN [k EXCEPT !.r_f_trim = int_to_float(response)] ELSE k

\* the ten parameters, in the order of read_all_parameters
Params ==
    << "mode", "frequency", "amplitude", "startup_enabled", "vin", "vout",
       "pot_range", "r_g_trim", "r_f_trim", "wiper" >>

ParamSet == {Params[i] : i \in 1..Len(Params)}

\* the action code each getter sends
get_action(p) ==
    CASE p = "mode" -> 21
      [] p = "frequency" -> 22
      [] p = "amplitude" -> 23
      [] p = "wiper" -> 24
      [] p = "startup_enabled" -> 31
      [] p = "vin" -> 32
      [] p = "vout" -> 33
      [] p = "pot_range" -> 34
      [] p = "r_g_trim" -> 35
      [] p = "r_f_trim" -> 36

\* the getter of parameter p
getter(p, k, response) ==
    CASE p = "mode" -> get_mode(k, response)
      [] p = "frequency" -> get_frequency(k, response)
      [] p = "amplitude" -> get_amplitude(k, response)
      [] p = "wiper" -> get_wiper(k, response)
      [] p = "startup_enabled" -> get_startup_enabled(k, response)
      [] p = "vin" -> get_vin(k, response)
      [] p = "vout" -> get_vout(k, response)
      [] p = "pot_range" -> get_pot_range(k, response)
      [] p = "r_g_trim" -> get_r_g_trim(k, response)
      [] p = "r_f_trim" -> get_r_f_trim(k, response)

\* the setter of parameter p
setter(p, k, v) ==
    CASE p = "mode" -> set_mode(k, v)
      [] p = "frequency" -> set_frequency(k, v)
      [] p = "amplitude" -> set_amplitude(k, v)
      [] p = "wiper" -> set_wiper(k, v)
      [] p = "startup_enabled" -> set_startup_enabled(k, v)
      [] p = "vin" -> set_vin(k, v)
      [] p = "vout" -> set_vout(k, v)
      [] p = "pot_range" -> set_pot_range(k, v)
      [] p = "r_g_trim" -> set_r_g_trim(k, v)
      [] p = "r_f_trim" -> set_r_f_trim(k, v)

\* NanoKicker.read_all_parameters from the i-th getter on: k is the handle,
\* resp[i] the transport's behaviour during the i-th getter.  An exception
\* raised by a getter leaves the method at once.
RECURSIVE read_all_loop(_, _, _, _)
read_all_loop(i, m, k, resp) ==
    IF i > Len(Params) THEN [m |-> m, k |-> k, exc |-> "none"]
    ELSE LET r == send_command(m, k.device_id, get_action(Params[i]),
                               PyInt(0, 0), TRUE, resp[i])
         IN  IF r.exc # "none" THEN [m |-> r.m, k |-> k, exc |-> r.exc]
             ELSE read_all_loop(i + 1, r.m, getter(Params[i], k, r.ret), resp)

read_all_parameters(m, k, resp) == read_all_loop(1, m, k, resp)

(***************************************************************************)
(* Motherboard.scan_for_nanokickers.  kickers is the sequence of all       *)
(* NanoKicker objects created so far (an object is its index), reg the     *)
(* dict self.nanokickers from slot to object, resp[i] the transport's      *)
(* behaviour during the probe of slot i.                                   *)
(***************************************************************************)
\* scan_for_nanokickers without self.nanokickers.clear()
clear_missing(reg) == reg

\* self.nanokickers.clear()
clear(reg) == << >>

\* self.nanokickers[i] = kicker
setitem(reg, i, kicker) ==
    [s \in (DOMAIN reg) \cup {i} |-> IF s = i THEN kicker ELSE reg[s]]

\* the test without  response is not None
is_device_any(response) == response # ERROR_RESPONSE_MINUS_2

\* the test that classifies a probe's response as a device
is_device(response) == response # None /\ response # ERROR_RESPONSE_MINUS_2

ScanState(m, kickers, reg, exc) ==
    [m |-> m, kickers |-> kickers, reg |-> reg, exc |-> exc]

\* the loop  for i in range(self.MAX_DEVICES)  from slot i on
RECURSIVE scan_loop(_, _, _, _, _)
scan_loop(i, m, kickers, reg, resp) ==
    IF i >= MAX_DEVICES THEN ScanState(m, kickers, reg, "none")
    ELSE LET r == send_command(m, i, 21, PyInt(0, 0), TRUE, resp[i])
         IN  IF r.exc # "none" THEN ScanState(r.m, kickers, reg, r.exc)
             ELSE IF is_device(r.ret)
             THEN LET kicker == [NanoKicker(i) EXCEPT !.mode = r.ret]
                      all == Append(kickers, kicker)
                  IN  scan_loop(i + 1, r.m, all,
                                setitem(reg, i, Len(all)), resp)
             ELSE scan_loop(i + 1, r.m, kickers, reg, resp)

\* the test at the entry of scan_for_nanokickers
scan_guard(m) == is_connected(m)

\* ret is the dict self.nanokickers itself, or None
scan_for_nanokickers(m, kickers, reg, resp) ==
    IF ~scan_guard(m)
    THEN [st |-> ScanState(print(m, "Error: Not connected to motherboard."),
                           kickers, reg, "none"),
          ret |-> None]
    ELSE LET st == scan_loop(0, Log(m, Ev("clear", << >>)), kickers,
                             clear(reg), resp)
         IN  [st |-> st,
              ret |-> IF st.exc = "none" THEN [t |-> "dict", v |-> st.reg]
                      ELSE None]

(***************************************************************************)
(* The environment: what a transport does during one transaction.          *)
(***************************************************************************)
\* what serial.read(4) may return to a getter: nothing (timeout), a byte
\* that is not UTF-8, short text ("err"), and a full 4-byte answer
ReadData == { << >>, << 255 >>, << 101, 114, 114 >>, << 0, 0, 0, 1 >> }

\* what serial.read(4) may return to a probe of a scan
ProbeData ==
    ReadData \cup {pack_I(ERROR_RESPONSE_MINUS_2), pack_I(ERROR_RESPONSE_MINUS_1),
                   << 45, 50, 13, 10 >>}     \* the last one is b"-2\r\n"

\* what serial.readline() may return: nothing (timeout), "error\n" and a
\* line that is not UTF-8
LineData == { << >>, << 101, 114, 114, 111, 114, 10 >>, << 255, 10 >> }

\* the transport calls that may raise serial.SerialException
FailPoints == {"write", "read"}

\* what the registered disconnect callback does
Handlers == {"return", "send_command"}

Fails ==
    {[fail |-> f, data |-> << >>, handler |-> h] :
        f \in FailPoints, h \in Handlers}

Reads(D) == {[fail |-> "none", data |-> d] : d \in D}

TxEnv(read_response) ==
    Fails \cup Reads(IF read_response THEN ReadData ELSE LineData)

Timeout == [fail |-> "none", data |-> << >>]

\* The transport's behaviour during the 20 probes of one scan: slot 0 may
\* answer with anything, the last slot answers, times out or fails, every
\* other slot times out.
ScanEnv ==
    {[i \in 0..(MAX_DEVICES - 1) |->
         IF i = 0 THEN first
         ELSE IF i = MAX_DEVICES - 1 THEN final
         ELSE Timeout] :
     first \in Fails \cup Reads(ProbeData),
     final \in {Timeout, [fail |-> "none", data |-> << 0, 0, 0, 1 >>],
                [fail |-> "read", data |-> << >>, handler |-> "return"]}}

Answer == [fail |-> "none", data |-> << 0, 0, 0, 1 >>]

\* The transport's behaviour during the ten getters of one
\* read_all_parameters: the first getter meets anything, the last one is
\* answered or times out, the others are answered.
ReadAllEnv ==
    {[i \in 1..Len(Params) |->
         IF i = 1 THEN first
         ELSE IF i = Len(Params) THEN final
         ELSE Answer] :
     first \in TxEnv(TRUE), final \in {Timeout, Answer}}

\* the values the caller passes to the setter of parameter p
SetValues(p) ==
    IF p = "frequency" THEN {PyInt(0, 1000)}
    ELSE IF p \in {"mode", "wiper"} THEN {PyInt(0, 2)}
    ELSE IF p = "startup_enabled" THEN {PyBool(TRUE)}
    ELSE {PyFloat(0, 128, 2097152)}     \* 2.5

\* the device ids the caller passes to send_command directly
DirectIds == {3, MAX_DEVICES, 256}

\* the values the caller passes to send_command directly: 1000, 0x01020304
\* and 0xFFFFFFFF
DirectValues(device_id) ==
    IF device_id = 3
    THEN {PyInt(0, 1000), PyInt(258, 772), PyInt(65535, 65535)}
    ELSE {PyInt(0, 1000)}

\* the device ids the caller constructs NanoKicker objects with
NewIds == {3, MAX_DEVICES}

(***************************************************************************)
(* State.                                                                  *)
(***************************************************************************)
VARIABLES
    port,                \* Motherboard.port: None or a port name
    serial,              \* Motherboard.serial: None or a serial.Serial object
    disconnect_callback, \* whether a disconnect callback is registered
    nanokickers,         \* Motherboard.nanokickers: slot -> NanoKicker object
    kickers,             \* every NanoKicker object created so far
    open,                \* the serial.Serial objects whose port is open
    opened,              \* number of serial.Serial objects created
    calls,               \* number of invocations of the disconnect callback
    log,                 \* transport calls and diagnostics of the last call
    ret,                 \* what the last call returned
    exc,                 \* the exception the last call raised, or "none"
    last,                \* the last call: method, arguments, state before it
    steps                \* number of calls made

\* the Motherboard, the NanoKickers and their caller
core ==
    << port, serial, disconnect_callback, nanokickers, kickers, open,
       opened, calls, log, ret, exc, last, steps >>

\* The application of src/src/gui: the MainWindow on the GUI thread and its
\* Worker on the worker thread.
VARIABLES
    boards,      \* the Motherboard objects the Worker created; serial is
                 \* TRUE iff the object's self.serial is an open port
    worker_mb,   \* Worker.motherboard: an index of boards, 0 for None
    worker_q,    \* the slot calls queued for the worker thread
    gui_q,       \* the slot calls queued for the GUI thread
    buttons,     \* which of the buttons of the window are enabled
    label,       \* what status_label says
    shown,       \* the handles of the NanoKickerWidgets in kicker_layout
    wpc,         \* what the worker thread is executing
    gpc,         \* what the GUI thread is executing
    clicks,      \* number of clicks the user made
    stale,       \* the window was told "Connection Lost" and of no
                 \* successful connect since
    aborted      \* an exception left a slot

gvars ==
    << boards, worker_mb, worker_q, gui_q, buttons, label, shown, wpc, gpc,
       clicks, stale, aborted >>

vars == << core, gvars >>

\* the Motherboard and its transports at the start of a call
M ==
    [port |-> port, serial |-> serial,
     disconnect_callback |-> disconnect_callback,
     open |-> open, opened |-> opened, calls |-> calls, log |-> << >>]

SetM(m) ==
    /\ port' = m.port
    /\ serial' = m.serial
    /\ disconnect_callback' = m.disconnect_callback
    /\ open' = m.open
    /\ opened' = m.opened
    /\ calls' = m.calls
    /\ log' = m.log

\* the record of a call: op the method, k the NanoKicker object (0: none),
\* p the parameter, arg the arguments, prev the method called before it, and
\* the state the call started in
Call(op, k, p, arg) ==
    [op |-> op, k |-> k, p |-> p, arg |-> arg, prev |-> last.op,
     was_connected |-> (serial # None /\ serial.id \in open),
     calls |-> calls,
     reg |-> nanokickers,
     n |-> Len(kickers),
     before |-> IF k = 0 THEN None ELSE kickers[k]]

\* a thread that is in its event loop
Idle ==
    [op |-> "idle", board |-> 0, i |-> 0, phase |-> "", found |-> {},
     todo |-> << >>, dev |-> 0, left |-> 0, n |-> 0]

\* MainWindow.__init__ and Worker.__init__: no Motherboard, "Status: Not
\* Connected", the Connect button enabled, Disconnect and Scan disabled
GuiStart ==
    /\ boards = << >>
    /\ worker_mb = 0
    /\ worker_q = << >>
    /\ gui_q = << >>
    /\ buttons = [connect |-> TRUE, disconnect |-> FALSE, scan |-> FALSE]
    /\ label = "Not Connected"
    /\ shown = {}
    /\ wpc = Idle
    /\ gpc = Idle
    /\ clicks = 0
    /\ stale = FALSE
    /\ aborted = FALSE

\* Motherboard.__init__
init(p, cb, ok) ==
    LET m == [port |-> p, serial |-> None, disconnect_callback |-> cb,
              open |-> {}, opened |-> 0, calls |-> 0, log |-> << >>]
    IN  IF p # None THEN connect(m, ok)
        ELSE print(m, "Error: Could not find Raspberry Pi Pico motherboard.")

Init ==
    \E p \in {None, Str("COM3")}, cb \in BOOLEAN, ok \in BOOLEAN :
    \E m \in {init(p, cb, ok)} :
        /\ port = m.port
        /\ serial = m.serial
        /\ disconnect_callback = m.disconnect_callback
        /\ open = m.open
        /\ opened = m.opened
        /\ calls = m.calls
        /\ log = m.log
        /\ nanokickers = << >>
        /\ kickers = << >>
        /\ ret = None
        /\ exc = "none"
        /\ last = [op |-> "__init__", k |-> 0, p |-> "", arg |-> << >>,
                   prev |-> "",
                   was_connected |-> FALSE, calls |-> 0, reg |-> << >>,
                   n |-> 0,
                   before |-> None]
        /\ steps = 0
        /\ GuiStart

(***************************************************************************)
(* The calls.  Each action is one call of a public method, from its entry  *)
(* to its return (or to the exception that leaves it).                     *)
(***************************************************************************)
Connect ==
    /\ steps < MaxSteps
    /\ \E ok \in BOOLEAN : SetM(connect(M, ok))
    /\ last' = Call("connect", 0, "", << >>)
    /\ ret' = None
    /\ exc' = "none"
    /\ steps' = steps + 1
    /\ UNCHANGED gvars
    /\ UNCHANGED << nanokickers, kickers >>

Disconnect ==
    /\ steps < MaxSteps
    /\ SetM(disconnect(M))
    /\ last' = Call("disconnect", 0, "", << >>)
    /\ ret' = None
    /\ exc' = "none"
    /\ steps' = steps + 1
    /\ UNCHANGED gvars
    /\ UNCHANGED << nanokickers, kickers >>

\* Motherboard.send_command called directly
SendCommand ==
    /\ steps < MaxSteps
    /\ \E device_id \in DirectIds, read_response \in BOOLEAN :
       \E env \in TxEnv(read_response) :
       \E action \in {IF read_response THEN 22 ELSE 2} :
       \E value \in DirectValues(device_id) :
       \E r \in {send_command(M, device_id, action, value,
                              read_response, env)} :
          /\ SetM(r.m)
          /\ ret' = r.ret
          /\ exc' = r.exc
          /\ last' = Call("send_command", 0, "",
                          << device_id, action, read_response, value >>)
    /\ steps' = steps + 1
    /\ UNCHANGED gvars
    /\ UNCHANGED << nanokickers, kickers >>

Scan ==
    /\ steps < MaxSteps
    /\ \E resp \in ScanEnv :
       \E r \in {scan_for_nanokickers(M, kickers, nanokickers, resp)} :
          /\ SetM(r.st.m)
          /\ kickers' = r.st.kickers
          /\ nanokickers' = r.st.reg
          /\ ret' = r.ret
          /\ exc' = r.st.exc
    /\ last' = Call("scan_for_nanokickers", 0, "", << >>)
    /\ steps' = steps + 1
    /\ UNCHANGED gvars

\* a getter of NanoKicker object k
Get ==
    /\ steps < MaxSteps
    /\ \E k \in 1..Len(kickers), p \in ParamSet, env \in TxEnv(TRUE) :
       \E r \in {send_command(M, kickers[k].device_id, get_action(p),
                              PyInt(0, 0), TRUE, env)} :
       \E after \in {IF r.exc = "none" THEN getter(p, kickers[k], r.ret)
                     ELSE kickers[k]} :
          /\ SetM(r.m)
          /\ kickers' = [kickers EXCEPT ![k] = after]
          /\ ret' = IF r.exc = "none" THEN after[p] ELSE None
          /\ exc' = r.exc
          /\ last' = Call("get", k, p, << >>)
    /\ steps' = steps + 1
    /\ UNCHANGED gvars
    /\ UNCHANGED nanokickers

\* a setter of NanoKicker object k
Set ==
    /\ steps < MaxSteps
    /\ \E k \in 1..Len(kickers), p \in ParamSet, env \in TxEnv(FALSE) :
       \E v \in SetValues(p) :
       \E c \in {setter(p, kickers[k], v)} :
       \E r \in {send_command(M, c.k.device_id, c.action, c.value, FALSE,
                              env)} :
          /\ SetM(r.m)
          /\ kickers' = [kickers EXCEPT ![k] = c.k]
          /\ ret' = None
          /\ exc' = r.exc
          /\ last' = Call("set", k, p, << v >>)
    /\ steps' = steps + 1
    /\ UNCHANGED gvars
    /\ UNCHANGED nanokickers

\* save_settings or load_settings of NanoKicker object k
Persist ==
    /\ steps < MaxSteps
    /\ \E k \in 1..Len(kickers), env \in TxEnv(FALSE) :
       \E op \in {"save_settings", "load_settings"} :
       \E c \in {IF op = "save_settings" THEN save_settings(kickers[k])
                  ELSE load_settings(kickers[k])} :
       \E r \in {send_command(M, c.k.device_id, c.action, c.value, FALSE,
                              env)} :
          /\ SetM(r.m)
          /\ kickers' = [kickers EXCEPT ![k] = c.k]
          /\ exc' = r.exc
          /\ last' = Call(op, k, "", << >>)
    /\ ret' = None
    /\ steps' = steps + 1
    /\ UNCHANGED gvars
    /\ UNCHANGED nanokickers

\* read_all_parameters of NanoKicker object k
ReadAll ==
    /\ steps < MaxSteps
    /\ \E k \in 1..Len(kickers), resp \in ReadAllEnv :
       \E r \in {read_all_parameters(M, kickers[k], resp)} :
          /\ SetM(r.m)
          /\ kickers' = [kickers EXCEPT ![k] = r.k]
          /\ exc' = r.exc
          /\ last' = Call("read_all_parameters", k, "", << >>)
    /\ ret' = None
    /\ steps' = steps + 1
    /\ UNCHANGED gvars
    /\ UNCHANGED nanokickers

\* NanoKicker(device_id, motherboard) called by the caller itself
NewKicker ==
    /\ steps < MaxSteps
    /\ \E device_id \in NewIds :
          /\ IF valid_device_id(device_id)
             THEN /\ kickers' = Append(kickers, NanoKicker(device_id))
                  /\ exc' = "none"
             ELSE /\ kickers' = kickers
                  /\ exc' = "ValueError"
          /\ last' = Call("NanoKicker", 0, "", << device_id >>)
    /\ SetM(M)
    /\ ret' = None
    /\ steps' = steps + 1
    /\ UNCHANGED gvars
    /\ UNCHANGED nanokickers

Next ==
    \/ Connect \/ Disconnect \/ SendCommand \/ Scan
    \/ Get \/ Set \/ Persist \/ ReadAll \/ NewKicker

Spec == Init /\ [][Next]_vars

(***************************************************************************)
(* The two conversions of NanoKicker on their own: a caller that applies   *)
(* _float_to_int and _int_to_float to sample values and to each other's    *)
(* results.  arg is << input, the input of the call that produced it >>.   *)
(***************************************************************************)
\* finite single-precision floats: zeros, denormals, 1.0, 2.5, the largest
Floats ==
    {PyFloat(sign, e, m) :
        sign \in {0, 1},
        e \in {0, 1, 127, 128, 254},
        m \in {0, 1, 65535, 65536, 2097152, 8388607}}

\* the bit patterns of finite floats: the exponent bits are not all ones
Patterns ==
    {u \in {PyInt(hi, lo) :
                hi \in {0, 1, 127, 128, 16256, 16416, 32639, 32768, 49184,
                        65407},
                lo \in {0, 1, 65535}} :
        (u.hi % 32768) \div 128 # 255}

FloatToInt ==
    /\ steps < MaxSteps
    /\ \E f \in (IF ret.t = "float" THEN {ret} ELSE Floats) :
          /\ ret' = float_to_int(f)
          /\ last' = Call("_float_to_int", 0, "",
                          << f, IF ret.t = "float" THEN last.arg[1] ELSE None >>)
    /\ SetM(M)
    /\ exc' = "none"
    /\ steps' = steps + 1
    /\ UNCHANGED gvars
    /\ UNCHANGED << nanokickers, kickers >>

IntToFloat ==
    /\ steps < MaxSteps
    /\ \E u \in (IF ret.t = "int" THEN {ret} ELSE Patterns) :
          /\ ret' = int_to_float(u)
          /\ last' = Call("_int_to_float", 0, "",
                          << u, IF ret.t = "int" THEN last.arg[1] ELSE None >>)
    /\ SetM(M)
    /\ exc' = "none"
    /\ steps' = steps + 1
    /\ UNCHANGED gvars
    /\ UNCHANGED << nanokickers, kickers >>

FloatNext == FloatToInt \/ IntToFloat

FloatSpec == Init /\ [][FloatNext]_vars

(***************************************************************************)
(* The application (src/src/gui).  The MainWindow and the                  *)
(* NanoKickerWidgets run on the GUI thread, the Worker on the worker       *)
(* thread; a signal emitted on one thread for a slot of the other is       *)
(* queued and run by the receiving thread's event loop.  Each thread runs  *)
(* one slot at a time.  A send_command is two steps: the connected test    *)
(* with the write of the command, and the read of the response; between    *)
(* them the transaction is in flight.                                      *)
(***************************************************************************)
\* number of clicks the user makes
MaxClicks == 5

Status(ok, message) == [sig |-> "status", ok |-> ok, message |-> message]

\* scan_results carries the dict self.nanokickers of Motherboard board: the
\* object itself, which a later scan of that Motherboard clears and fills
Results(board) == [sig |-> "results", board |-> board]

\* MainWindow.on_connection_status_changed, the part on the widgets it owns
StatusChanged(connected, message) ==
    /\ label' = message
    /\ buttons' = [connect |-> ~connected, disconnect |-> connected,
                   scan |-> connected]
    /\ shown' = IF connected THEN shown ELSE {}
    /\ stale' = IF message = "Connection Lost" THEN TRUE
                ELSE IF connected THEN FALSE
                ELSE stale

\* what the transport does to the probe of slot i: the device answers, the
\* read times out, or the transport fails
ProbeOutcomes(i) ==
    IF i = 0 THEN {"answer", "timeout", "lost"}
    ELSE IF i = MAX_DEVICES - 1 THEN {"timeout", "lost"}
    ELSE {"timeout"}

\* what the transport does to a transaction of a widget: it may fail in the
\* first transaction of a slot
WidgetOutcomes(pc) == IF pc.left = pc.n THEN {"answer", "lost"} ELSE {"answer"}

\* the number of send_command calls of the slots of a NanoKickerWidget
Transactions(slot) ==
    CASE slot = "get_parameters" -> 10
      [] slot = "set_parameters" -> 3
      [] slot = "set_advanced_parameters" -> 6
      [] slot = "save_to_memory" -> 1
      [] slot = "load_from_memory" -> 11

WidgetSlots ==
    {"get_parameters", "set_parameters", "set_advanced_parameters",
     "save_to_memory", "load_from_memory"}

\* the keys of a dict of found kickers in the order of insertion
RECURSIVE Ascending(_)
Ascending(S) ==
    IF S = {} THEN << >>
    ELSE LET x == CHOOSE y \in S : \A z \in S : y <= z
         IN  << x >> \o Ascending(S \ {x})

GuiInit == Init /\ port = None /\ ~disconnect_callback

(* ------------------------- the worker thread ------------------------- *)
Take(task) ==
    /\ ~aborted
    /\ wpc.op = "idle"
    /\ worker_q # << >>
    /\ Head(worker_q) = task
    /\ worker_q' = Tail(worker_q)

\* Worker.connect_motherboard: a new Motherboard, whose __init__ connects
WorkerConnect ==
    /\ Take("connect")
    /\ \E ok \in BOOLEAN :
          /\ boards' = Append(boards, [serial |-> ok, nanokickers |-> {}])
          /\ worker_mb' = IF ok THEN Len(boards) + 1 ELSE 0
          /\ gui_q' = Append(gui_q, Status(ok, IF ok THEN "Connected to"
                                                ELSE "Failed to connect."))
    /\ UNCHANGED << buttons, label, shown, wpc, gpc, clicks, stale, aborted >>
    /\ UNCHANGED core

\* Worker.scan_for_kickers up to the first probe.  With no Motherboard it
\* only emits finished; on a Motherboard that is not connected the scan
\* returns None and scan_results.emit(None) raises TypeError; otherwise
\* the scan clears self.nanokickers.
WorkerScan ==
    /\ Take("scan")
    /\ IF worker_mb = 0
       THEN UNCHANGED << wpc, aborted, boards >>
       ELSE IF ~boards[worker_mb].serial
       THEN aborted' = TRUE /\ UNCHANGED << wpc, boards >>
       ELSE /\ wpc' = [Idle EXCEPT !.op = "scan", !.board = worker_mb,
                                   !.phase = "call"]
            /\ boards' = [boards EXCEPT ![worker_mb].nanokickers = {}]
            /\ UNCHANGED aborted
    /\ UNCHANGED << worker_mb, gui_q, buttons, label, shown, gpc,
                    clicks, stale >>
    /\ UNCHANGED core

\* the probe of slot wpc.i: the connected test and the write
ProbeBegin ==
    /\ ~aborted
    /\ wpc.op = "scan"
    /\ wpc.phase = "call"
    /\ wpc.i < MAX_DEVICES
    /\ wpc' = IF boards[wpc.board].serial
              THEN [wpc EXCEPT !.phase = "flight"]
              ELSE [wpc EXCEPT !.i = @ + 1]
    /\ UNCHANGED << boards, worker_mb, worker_q, gui_q, buttons, label,
                    shown, gpc, clicks, stale, aborted >>
    /\ UNCHANGED core

\* the probe of slot wpc.i: the read, and what the scan does with the
\* response.  A transport failure runs Worker._handle_disconnect on this
\* thread.  When the other thread has closed the port meanwhile, the read
\* raises: AttributeError (self.serial is None), which leaves the slot, or
\* a SerialException, which send_command handles as a transport failure.
ProbeEnd ==
    /\ ~aborted
    /\ wpc.op = "scan"
    /\ wpc.phase = "flight"
    /\ IF boards[wpc.board].serial
       THEN \E out \in ProbeOutcomes(wpc.i) :
               /\ wpc' = [wpc EXCEPT !.phase = "call", !.i = @ + 1]
               /\ IF out = "lost"
                  THEN /\ boards' = [boards EXCEPT ![wpc.board].serial = FALSE]
                       /\ gui_q' = Append(gui_q,
                                          Status(FALSE, "Connection Lost"))
                       /\ worker_mb' = 0
                  ELSE /\ boards' =
                            IF out = "answer"
                            THEN [boards EXCEPT
                                    ![wpc.board].nanokickers = @ \cup {wpc.i}]
                            ELSE boards
                       /\ UNCHANGED << gui_q, worker_mb >>
               /\ UNCHANGED aborted
       ELSE \E raised \in {"AttributeError", "SerialException"} :
               /\ aborted' = (raised = "AttributeError")
               /\ wpc' = [wpc EXCEPT !.phase = "call", !.i = @ + 1]
               /\ IF raised = "SerialException"
                  THEN /\ gui_q' = Append(gui_q,
                                          Status(FALSE, "Connection Lost"))
                       /\ worker_mb' = 0
                  ELSE UNCHANGED << gui_q, worker_mb >>
               /\ UNCHANGED boards
    /\ UNCHANGED << worker_q, buttons, label, shown, gpc, clicks, stale >>
    /\ UNCHANGED core

\* the scan returns self.nanokickers and the Worker emits it
ScanEnd ==
    /\ ~aborted
    /\ wpc.op = "scan"
    /\ wpc.phase = "call"
    /\ wpc.i = MAX_DEVICES
    /\ gui_q' = Append(gui_q, Results(wpc.board))
    /\ wpc' = Idle
    /\ UNCHANGED << boards, worker_mb, worker_q, buttons, label, shown, gpc,
                    clicks, stale, aborted >>
    /\ UNCHANGED core

\* Worker.disconnect_motherboard up to self.serial.close()
WorkerDisconnect ==
    /\ Take("disconnect")
    /\ wpc' = [Idle EXCEPT !.op = "disconnect", !.board = worker_mb]
    /\ UNCHANGED << boards, worker_mb, gui_q, buttons, label, shown, gpc,
                    clicks, stale, aborted >>
    /\ UNCHANGED core

\* the rest of it: self.serial = None and the emit of "Disconnected"
DisconnectEnd ==
    /\ ~aborted
    /\ wpc.op = "disconnect"
    /\ boards' = IF wpc.board = 0 THEN boards
                 ELSE [boards EXCEPT ![wpc.board].serial = FALSE]
    /\ gui_q' = Append(gui_q, Status(FALSE, "Disconnected"))
    /\ wpc' = Idle
    /\ UNCHANGED << worker_mb, worker_q, buttons, label, shown, gpc, clicks,
                    stale, aborted >>
    /\ UNCHANGED core

(* --------------------------- the GUI thread --------------------------- *)
\* the user may click when the GUI thread is in its event loop
Click ==
    /\ ~aborted
    /\ gpc.op = "idle"
    /\ clicks < MaxClicks
    /\ clicks' = clicks + 1

\* MainWindow.connect_to_motherboard, with a port selected
ClickConnect ==
    /\ Click
    /\ buttons.connect
    /\ buttons' = [buttons EXCEPT !.connect = FALSE]
    /\ worker_q' = Append(worker_q, "connect")
    /\ UNCHANGED << boards, worker_mb, gui_q, label, shown, wpc, gpc, stale,
                    aborted >>
    /\ UNCHANGED core

\* MainWindow.disconnect_from_motherboard
ClickDisconnect ==
    /\ Click
    /\ buttons.disconnect
    /\ shown' = {}
    /\ worker_q' = Append(worker_q, "disconnect")
    /\ UNCHANGED << boards, worker_mb, gui_q, buttons, label, wpc, gpc, stale,
                    aborted >>
    /\ UNCHANGED core

\* MainWindow.scan_for_kickers
ClickScan ==
    /\ Click
    /\ buttons.scan
    /\ buttons' = [buttons EXCEPT !.scan = FALSE]
    /\ label' = "Scanning for devices..."
    /\ shown' = {}
    /\ worker_q' = Append(worker_q, "scan")
    /\ UNCHANGED << boards, worker_mb, gui_q, wpc, gpc, stale, aborted >>
    /\ UNCHANGED core

\* a button of a displayed NanoKickerWidget: the slot starts
ClickWidget ==
    /\ Click
    /\ \E w \in shown, slot \in WidgetSlots :
          gpc' = [Idle EXCEPT !.op = slot, !.board = w.board, !.dev = w.dev,
                              !.phase = "call", !.left = Transactions(slot),
                              !.n = Transactions(slot)]
    /\ UNCHANGED << boards, worker_mb, worker_q, gui_q, buttons, label,
                    shown, wpc, stale, aborted >>
    /\ UNCHANGED core

\* the event loop delivers a queued connection_status
OnStatus ==
    /\ ~aborted
    /\ gpc.op = "idle"
    /\ gui_q # << >>
    /\ Head(gui_q).sig = "status"
    /\ gui_q' = Tail(gui_q)
    /\ StatusChanged(Head(gui_q).ok, Head(gui_q).message)
    /\ UNCHANGED << boards, worker_mb, worker_q, wpc, gpc, clicks, aborted >>
    /\ UNCHANGED core

\* the event loop delivers a queued scan_results: display_kicker_widgets up
\* to the construction of the first NanoKickerWidget, whose __init__ ends
\* with get_parameters
OnResults ==
    /\ ~aborted
    /\ gpc.op = "idle"
    /\ gui_q # << >>
    /\ Head(gui_q).sig = "results"
    /\ gui_q' = Tail(gui_q)
    /\ label' = "Connected."
    /\ LET board == Head(gui_q).board
           found == boards[board].nanokickers
       IN  IF found = {}
           THEN /\ buttons' = [buttons EXCEPT !.scan = TRUE]
                /\ UNCHANGED gpc
           ELSE /\ gpc' = [Idle EXCEPT
                             !.op = "display", !.board = board,
                             !.found = found,
                             !.todo = Tail(Ascending(found)),
                             !.dev = Head(Ascending(found)),
                             !.phase = "call",
                             !.left = Transactions("get_parameters"),
                             !.n = Transactions("get_parameters")]
                /\ UNCHANGED buttons
    /\ UNCHANGED << boards, worker_mb, worker_q, shown, wpc, clicks, stale,
                    aborted >>
    /\ UNCHANGED core

\* a send_command of the running slot: the connected test and the write
TxBegin ==
    /\ ~aborted
    /\ gpc.phase = "call"
    /\ gpc.left > 0
    /\ gpc' = IF boards[gpc.board].serial
              THEN [gpc EXCEPT !.phase = "flight"]
              ELSE [gpc EXCEPT !.left = @ - 1]
    /\ UNCHANGED << boards, worker_mb, worker_q, gui_q, buttons, label,
                    shown, wpc, clicks, stale, aborted >>
    /\ UNCHANGED core

\* a send_command of the running slot: the read.  A transport failure runs
\* Worker._handle_disconnect on this thread, so that the emit of
\* connection_status calls on_connection_status_changed directly.
TxEnd ==
    /\ ~aborted
    /\ gpc.phase = "flight"
    /\ gpc' = [gpc EXCEPT !.phase = "call", !.left = @ - 1]
    /\ IF boards[gpc.board].serial
       THEN \E out \in WidgetOutcomes(gpc) :
               IF out = "lost"
               THEN /\ boards' = [boards EXCEPT ![gpc.board].serial = FALSE]
                    /\ StatusChanged(FALSE, "Connection Lost")
                    /\ worker_mb' = 0
                    /\ UNCHANGED aborted
               ELSE UNCHANGED << boards, label, buttons, shown, stale,
                                 worker_mb, aborted >>
       ELSE \E raised \in {"AttributeError", "SerialException"} :
               /\ aborted' = (raised = "AttributeError")
               /\ IF raised = "SerialException"
                  THEN StatusChanged(FALSE, "Connection Lost")
                       /\ worker_mb' = 0
                  ELSE UNCHANGED << label, buttons, shown, stale, worker_mb >>
               /\ UNCHANGED boards
    /\ UNCHANGED << worker_q, gui_q, wpc, clicks >>
    /\ UNCHANGED core

\* the running slot returns.  In display_kicker_widgets the widget is added
\* to the layout and the loop takes the next item of the dict, which raises
\* RuntimeError when the size of the dict has changed; after the last one
\* the Scan button is enabled.
SlotDone ==
    /\ ~aborted
    /\ gpc.op # "idle"
    /\ gpc.phase = "call"
    /\ gpc.left = 0
    /\ IF gpc.op = "display"
       THEN /\ shown' = shown \cup {[board |-> gpc.board, dev |-> gpc.dev]}
            /\ IF Cardinality(boards[gpc.board].nanokickers)
                     # Cardinality(gpc.found)
               THEN /\ aborted' = TRUE
                    /\ UNCHANGED << gpc, buttons >>
               ELSE IF gpc.todo = << >>
               THEN /\ gpc' = Idle
                    /\ buttons' = [buttons EXCEPT !.scan = TRUE]
                    /\ UNCHANGED aborted
               ELSE /\ gpc' = [gpc EXCEPT
                                 !.dev = Head(gpc.todo),
                                 !.todo = Tail(gpc.todo),
                                 !.left = Transactions("get_parameters")]
                    /\ UNCHANGED << buttons, aborted >>
       ELSE /\ gpc' = Idle
            /\ UNCHANGED << shown, buttons, aborted >>
    /\ UNCHANGED << boards, worker_mb, worker_q, gui_q, label, wpc, clicks,
                    stale >>
    /\ UNCHANGED core

GuiNext ==
    \/ WorkerConnect \/ WorkerScan \/ ProbeBegin \/ ProbeEnd \/ ScanEnd
    \/ WorkerDisconnect \/ DisconnectEnd
    \/ ClickConnect \/ ClickDisconnect \/ ClickScan \/ ClickWidget
    \/ OnStatus \/ OnResults \/ TxBegin \/ TxEnd \/ SlotDone

GuiSpec == GuiInit /\ [][GuiNext]_vars

(***************************************************************************)
(* What the last call did, read from its log.                              *)
(***************************************************************************)
Events(e) == {i \in 1..Len(log) : log[i].e = e}

Said(msg) == \E i \in Events("print") : log[i].data = msg

NotConnectedSaid == Said("Error: Not connected to motherboard.")

\* the transport raised serial.SerialException during the call
SerialError == Said("Serial error during command send")

Wrote == Events("write") # {}

ShortRead == \E i \in Events("read") : Len(log[i].data) < 4

FullRead == \E i \in Events("read") : Len(log[i].data) = 4

\* the last call was one call of send_command: direct, or made by a getter
\* or a setter
Transaction == last.op \in {"send_command", "get", "set"}

Scanned == last.op = "scan_for_nanokickers"

Connected == is_connected(M)

Outcome(r) == [ret |-> r.ret, exc |-> r.exc]

\* a Motherboard that is connected, to compute what a call returns
Proto ==
    [port |-> Str("COM3"), serial |-> Serial(1), disconnect_callback |-> TRUE,
     open |-> {1}, opened |-> 1, calls |-> 0, log |-> << >>]

\* the reads of the probe of slot i in the log of a scan: a transaction is
\* reset_input_buffer, write, flush, read
ProbeReads(i) ==
    {j \in Events("read") :
        j >= 3 /\ log[j - 2].e = "write" /\ log[j - 2].data[1] = i}

(***************************************************************************)
(* The claims.                                                             *)
(***************************************************************************)
\* C1: when the transport fails during the write or the read of a
\* send_command issued while connected, the link is disconnected afterwards
\* and the registered disconnect callback has been invoked exactly once by
\* that call; a send_command on a disconnected link never invokes it.
C1_LinkLostOnce ==
    /\ Transaction =>
          /\ (last.was_connected /\ SerialError) =>
                /\ ~Connected
                /\ serial = None
                /\ disconnect_callback =>
                      /\ calls = last.calls + 1
                      /\ Cardinality(Events("disconnect_callback")) = 1
          /\ ~last.was_connected =>
                /\ calls = last.calls
                /\ Events("disconnect_callback") = {}
    \* the probes a scan still makes after the probe that lost the link
    /\ (Scanned /\ SerialError) =>
          /\ ~Connected
          /\ disconnect_callback =>
                /\ calls = last.calls + 1
                /\ Cardinality(Events("disconnect_callback")) = 1

\* a send_command made after the link was lost and the callback invoked
C1_Witness ==
    /\ Transaction
    /\ ~last.was_connected
    /\ opened = 1
    /\ last.calls = 1
    /\ calls = 1

\* C2 (as claimed): the result of a send_command whose transport failed
\* differs from the result of a short read and from the result of a write
\* command.
C2_LinkLostDistinct ==
    (last.op = "send_command" /\ last.was_connected /\ SerialError) =>
        [ret |-> ret, exc |-> exc] \notin
            {Outcome(send_command(Proto, 3, 22, PyInt(0, 0), TRUE, Timeout)),
             Outcome(send_command(Proto, 3, 2, PyInt(0, 1000), FALSE, Timeout))}

\* C3 (as claimed): a binary-response send_command issued while connected
\* that reads 0 to 3 bytes returns None without raising, leaves the link
\* connected and does not invoke the disconnect callback.
C3_ShortReadBenign ==
    (last.op = "send_command" /\ last.was_connected /\ ShortRead) =>
        /\ exc = "none"
        /\ ret = None
        /\ Connected
        /\ calls = last.calls

\* C4 (as claimed): a getter whose transaction yields no value (no full
\* 4-byte read) leaves the cached value of its parameter unchanged.
C4_GetterKeepsCache ==
    (last.op = "get" /\ ~FullRead) =>
        kickers[last.k][last.p] = last.before[last.p]

\* C5: a send_command issued while disconnected, directly or by a getter or
\* a setter, touches no transport: all it does is report "Not connected"
\* and return no value.
C5_NotConnected ==
    (Transaction /\ ~last.was_connected) =>
        /\ log = << Ev("print", "Error: Not connected to motherboard.") >>
        /\ exc = "none"
        /\ last.op = "send_command" => ret = None

\* a setter called after the link was lost
C5_Witness ==
    /\ last.op = "set"
    /\ ~last.was_connected
    /\ opened = 1
    /\ NotConnectedSaid

\* C6 (as claimed): after disconnect() the registry is empty.
C6_DisconnectClears == last.op = "disconnect" => nanokickers = << >>

\* the values scan_for_nanokickers names as error responses of the firmware:
\* its three constants, and the 758254858 (b"-2\r\n") of its comment
ErrorResponses ==
    {ERROR_RESPONSE_MINUS_1, ERROR_RESPONSE_MINUS_2, ERROR_RESPONSE_MINUS_3,
     unpack_I(<< 45, 50, 13, 10 >>)}

\* C7 (as claimed): after a scan that ran to completion on a connected
\* link, the registry holds exactly the slots whose probe read 4 bytes that
\* are not one of the firmware's error responses, each with the probe's
\* response as its cached mode.
C7_ScanRegistry ==
    (Scanned /\ last.was_connected /\ exc = "none") =>
        /\ DOMAIN nanokickers =
              {i \in 0..(MAX_DEVICES - 1) :
                  \E j \in ProbeReads(i) :
                      /\ Len(log[j].data) = 4
                      /\ unpack_I(log[j].data) \notin ErrorResponses}
        /\ \A i \in DOMAIN nanokickers :
              /\ kickers[nanokickers[i]].device_id = i
              /\ \E j \in ProbeReads(i) :
                    kickers[nanokickers[i]].mode = unpack_I(log[j].data)

\* C8 (as claimed): a scan called while disconnected writes nothing,
\* returns an empty registry and leaves the registry empty.
C8_ScanDisconnected ==
    (Scanned /\ ~last.was_connected) =>
        /\ ~Wrote
        /\ ret = [t |-> "dict", v |-> << >>]
        /\ nanokickers = << >>

\* C9: a scan on a connected link clears the registry before its first
\* probe, and the registry after it holds only NanoKicker objects that this
\* scan created.
C9_ScanFresh ==
    (Scanned /\ last.was_connected) =>
        /\ log[1].e = "clear"
        /\ \A s \in DOMAIN nanokickers : nanokickers[s] > last.n

\* a completed scan that no longer finds the device an earlier scan found
\* in slot 0
C9_Witness ==
    /\ Scanned
    /\ last.was_connected
    /\ exc = "none"
    /\ 0 \in DOMAIN last.reg
    /\ 0 \notin DOMAIN nanokickers

DisconnectCalled == last'.op = "disconnect" /\ steps' # steps

\* C11: disconnect() leaves the link disconnected with no transport open,
\* whatever state it is called in, and raises nothing; called on a link
\* that is already disconnected (a second time) it changes nothing.
C11_DisconnectIdempotent ==
    [][DisconnectCalled =>
         /\ serial' = None
         /\ open' = {}
         /\ exc' = "none"
         /\ ~is_connected(M) =>
               /\ log' = << >>
               /\ UNCHANGED << port, serial, disconnect_callback, nanokickers,
                               kickers, open, opened, calls >>]_vars

\* a second disconnect() right after a disconnect() that closed the port
C11_Witness ==
    /\ last.op = "disconnect"
    /\ last.prev = "disconnect"
    /\ ~last.was_connected
    /\ opened = 1
    /\ serial = None

\* C12 (as claimed): a send_command whose device_id is outside 0..19
\* writes no bytes to the transport.
C12_DeviceIdChecked ==
    (last.op = "send_command" /\ last.arg[1] \notin 0..(MAX_DEVICES - 1)) =>
        ~Wrote

\* the 32-bit value that the 4 bytes b[i..i+3] are in big-endian order
BigEndian(b, i) == PyInt(b[i] * 256 + b[i + 1], b[i + 2] * 256 + b[i + 3])

IsFrame(b) == Len(b) = 6 /\ \A i \in 1..6 : b[i] \in 0..255

\* the command that the last call sent: device_id, action, value
Sent ==
    CASE last.op = "send_command" ->
            [device_id |-> last.arg[1], action |-> last.arg[2],
             value |-> last.arg[4]]
      [] last.op = "set" ->
            [device_id |-> kickers[last.k].device_id,
             action |-> setter(last.p, kickers[last.k], last.arg[1]).action,
             value |-> IF last.arg[1].t = "float"
                       THEN float_to_int(last.arg[1])
                       ELSE last.arg[1]]
      [] last.op = "get" ->
            [device_id |-> kickers[last.k].device_id,
             action |-> get_action(last.p), value |-> PyInt(0, 0)]

\* C13: every command written is 6 bytes; for a device_id in 0..19 the
\* first byte is the device_id, the second the action and the last four the
\* value in big-endian order; each probe of a scan is i, 21, 0; and
\* set_frequency(1000) on device 3 writes 03 02 00 00 03 E8.
C13_Frame ==
    /\ \A i \in Events("write") : IsFrame(log[i].data)
    /\ Transaction =>
          \A i \in Events("write") :
              Sent.device_id \in 0..(MAX_DEVICES - 1) =>
                  /\ log[i].data[1] = Sent.device_id
                  /\ log[i].data[2] = Sent.action
                  /\ Sent.value.t = "int" =>
                        BigEndian(log[i].data, 3) = Sent.value
    /\ Scanned =>
          \A i \in Events("write") :
              /\ log[i].data[2] = 21
              /\ BigEndian(log[i].data, 3) = PyInt(0, 0)
              /\ log[i].data[1] =
                    Cardinality({j \in Events("write") : j < i})
    /\ (/\ last.op = "set"
        /\ last.p = "frequency"
        /\ last.arg = << PyInt(0, 1000) >>
        /\ kickers[last.k].device_id = 3
        /\ Wrote) =>
          \A i \in Events("write") : log[i].data = << 3, 2, 0, 0, 3, 232 >>

\* set_frequency(1000) on a NanoKicker of device 3 wrote a command
C13_Witness ==
    /\ last.op = "set"
    /\ last.p = "frequency"
    /\ last.arg = << PyInt(0, 1000) >>
    /\ kickers[last.k].device_id = 3
    /\ Wrote

IsWrite(ev) == ev.e = "write"

\* the action codes of the commands the last call wrote, in order
WrittenActions ==
    LET w == SelectSeq(log, IsWrite)
    IN  [i \in 1..Len(w) |-> w[i].data[2]]

\* C14 (as claimed): read_all_parameters on a connected link writes exactly
\* ten get commands, with the actions 21, 22, 23, 24, 31, 32, 33, 34, 35, 36
\* in this order, whatever the getters return.
C14_ReadAllOrder ==
    (last.op = "read_all_parameters" /\ last.was_connected) =>
        WrittenActions = << 21, 22, 23, 24, 31, 32, 33, 34, 35, 36 >>

\* C18: after a setter called with value v the cached value of its
\* parameter is v, whatever the transaction did: sent, not connected, link
\* lost, or left by an exception (so the cache was written before the
\* command was sent).
C18_SetterCaches ==
    last.op = "set" => kickers[last.k][last.p] = last.arg[1]

\* a setter whose write lost the link, on a handle that had no value cached
C18_Witness ==
    /\ last.op = "set"
    /\ last.p = "frequency"
    /\ last.was_connected
    /\ SerialError
    /\ ~Wrote
    /\ last.before.frequency = None
    /\ kickers[last.k].frequency = PyInt(0, 1000)

\* C20: every command a call writes is immediately preceded by the discard
\* of the input buffer (nothing is read in between), and every discard is
\* followed by the write or by the failure of the write; this holds for the
\* single transaction of a getter, a setter or a direct send_command and for
\* each probe of a scan and each getter of read_all_parameters.
C20_ResetBeforeWrite ==
    /\ \A i \in Events("write") :
          i >= 2 /\ log[i - 1].e = "reset_input_buffer"
    /\ \A i \in Events("reset_input_buffer") :
          /\ i < Len(log)
          /\ \/ log[i + 1].e = "write"
             \/ log[i + 1] = Ev("print", "Serial error during command send")

\* a scan that wrote all 20 probes
C20_Witness ==
    /\ Scanned
    /\ Cardinality(Events("write")) = MAX_DEVICES
    /\ Cardinality(Events("reset_input_buffer")) = MAX_DEVICES

\* C19: _int_to_float applied to the result of _float_to_int gives back
\* the finite single-precision float it started from, sign, exponent and
\* mantissa, and _float_to_int applied to the result of _int_to_float gives
\* back the bit pattern it started from.
C19_FloatRoundTrip ==
    /\ (last.op = "_int_to_float" /\ last.arg[2] # None) =>
          /\ last.arg[2].t = "float"
          /\ ret = last.arg[2]
    /\ (last.op = "_float_to_int" /\ last.arg[2] # None) =>
          /\ last.arg[2].t = "int"
          /\ ret = last.arg[2]

\* the round trip of the negative float with exponent 128 and a mantissa
\* that has bits in both halves of the integer
C19_Witness ==
    /\ last.op = "_int_to_float"
    /\ last.arg[2] = PyFloat(1, 128, 8388607)
    /\ last.arg[1] = PyInt(49279, 65535)
    /\ ret = PyFloat(1, 128, 8388607)

\* a send_command of the GUI thread is between its connected test and its
\* return
GuiInFlight == gpc.phase = "flight"

\* C15: at most one send_command transaction is in flight on a Link at any
\* time: no command is written between the write of another transaction
\* and the end of the read of its response.
C15_OneInFlight ==
    ~(/\ GuiInFlight
      /\ wpc.op = "scan"
      /\ wpc.phase = "flight"
      /\ wpc.board = gpc.board)

\* C16: no send_command runs on one thread, between its connected test and
\* its return, while disconnect() or a scan of the same Link runs on the
\* other thread.
C16_OneThread ==
    GuiInFlight => ~(wpc.op \in {"scan", "disconnect"} /\ wpc.board = gpc.board)

\* C17: once the user interface has been told that the link is lost, it
\* shows the link as disconnected and no device widget, and displays no
\* scan results, until a later connect succeeds.
C17_LostStaysLost ==
    stale =>
      /\ label \in {"Connection Lost", "Disconnected", "Failed to connect."}
      /\ shown = {}
      /\ gpc.op # "display"
      /\ ~buttons.scan

\* C21: a send_command with read_response returns a value if and only if
\* its read returned exactly 4 bytes (so the transport did not fail), and
\* the value is those 4 bytes as a big-endian unsigned 32-bit integer; a
\* send_command without read_response returns no value in all cases.
C21_ReturnValue ==
    last.op = "send_command" =>
        /\ last.arg[3] =>
              /\ ret # None <=> (FullRead /\ ~SerialError /\ exc = "none")
              /\ ret # None =>
                    \A j \in Events("read") : ret = BigEndian(log[j].data, 1)
        /\ ~last.arg[3] => ret = None

\* a send_command with read_response that read 00 00 00 01 and returned 1
C21_Witness ==
    /\ last.op = "send_command"
    /\ last.arg[3]
    /\ \E j \in Events("read") : log[j].data = << 0, 0, 0, 1 >>
    /\ ret = PyInt(0, 1)

\* the commands the last call wrote, in order
Written == SelectSeq(log, IsWrite)

\* C22 (as claimed): a scan on a link that stays connected writes exactly
\* 20 commands, one per slot in the order 0, 1, ..., 19, each with action
\* 21 and value 0, and then returns.
C22_ScanTwenty ==
    (Scanned /\ last.was_connected /\ Connected) =>
        /\ exc = "none"
        /\ Len(Written) = MAX_DEVICES
        /\ \A i \in 1..Len(Written) :
              Written[i].data = << i - 1, 21, 0, 0, 0, 0 >>

\* the slot whose probe the transport failed in: every probe that passes
\* the connected test discards the input buffer once
FailedSlot == Cardinality(Events("reset_input_buffer")) - 1

\* the probe of slot i read 4 bytes that are not the "no device" response
Present(i) ==
    \E j \in ProbeReads(i) :
        /\ Len(log[j].data) = 4
        /\ BigEndian(log[j].data, 1) # ERROR_RESPONSE_MINUS_2

\* C23: when the transport fails during the probe of slot k of a scan, the
\* scan writes nothing for any slot greater than k, a registered disconnect
\* callback is invoked exactly once during the whole scan, and the scan
\* returns the registry, which holds exactly the slots below k whose probe
\* was classified present.
C23_ScanLinkLost ==
    (Scanned /\ SerialError) =>
        /\ \A i \in Events("write") : log[i].data[1] <= FailedSlot
        /\ calls = last.calls + (IF disconnect_callback THEN 1 ELSE 0)
        /\ Cardinality(Events("disconnect_callback")) = calls - last.calls
        /\ exc = "none"
        /\ ret = [t |-> "dict", v |-> nanokickers]
        /\ DOMAIN nanokickers = {i \in 0..(FailedSlot - 1) : Present(i)}

\* a scan that found the device of slot 0 and lost the link in the probe of
\* the last slot
C23_Witness ==
    /\ Scanned
    /\ SerialError
    /\ FailedSlot = MAX_DEVICES - 1
    /\ DOMAIN nanokickers = {0}
    /\ calls = last.calls + 1

\* the step is a call of a getter, a setter, save_settings or load_settings
HandleCalled ==
    /\ steps' # steps
    /\ last'.op \in {"get", "set", "save_settings", "load_settings"}

\* C24: a getter or a setter of one parameter of one handle, and
\* save_settings and load_settings of one handle, create no handle, leave
\* the registry alone, and leave every other cached parameter of that
\* handle and every cached parameter of every other handle unchanged.
C24_CacheFrame ==
    [][HandleCalled =>
         /\ Len(kickers') = Len(kickers)
         /\ nanokickers' = nanokickers
         /\ \A j \in 1..Len(kickers) :
               /\ kickers'[j].device_id = kickers[j].device_id
               /\ \A q \in ParamSet :
                     (j # last'.k \/ q # last'.p) =>
                         kickers'[j][q] = kickers[j][q]]_vars

\* get_frequency stored a new value in one of two handles, the other of
\* which has its mode cached
C24_Witness ==
    /\ last.op = "get"
    /\ last.p = "frequency"
    /\ Len(kickers) = 2
    /\ kickers[last.k].frequency # last.before.frequency
    /\ \E j \in 1..2 : j # last.k /\ kickers[j].mode # None

\* C25: when the disconnect callback is invoked, the port has been closed
\* and nothing is done on a transport from then on: a send_command that the
\* callback makes is refused at the connected test and writes nothing, and
\* the link is disconnected with no port open when the call returns.
C25_ClosedBeforeNotified ==
    \A i \in Events("disconnect_callback") :
        /\ \E j \in Events("close") : j < i
        /\ \A j \in i..Len(log) :
              log[j].e \in {"disconnect_callback", "print"}
        /\ ~Connected
        /\ serial = None
        /\ open = {}

\* a send_command whose transport failed and whose callback called
\* send_command, which was refused
C25_Witness ==
    /\ last.op = "send_command"
    /\ last.was_connected
    /\ \E i \in Events("disconnect_callback") :
          /\ i < Len(log)
          /\ log[i + 1] = Ev("print", "Error: Not connected to motherboard.")

\* C26: the disconnect callback is invoked only in a call whose
\* send_command met a transport failure on a connected link, after the
\* failure and once: disconnect(), connect() (failed or not), the
\* constructor, a short read and a send_command on a disconnected link
\* never invoke it.
C26_NotifiedOnlyOnFailure ==
    /\ \A i \in Events("disconnect_callback") :
          \E j \in Events("print") :
              j < i /\ log[j].data = "Serial error during command send"
    /\ calls - last.calls = Cardinality(Events("disconnect_callback"))
    /\ calls # last.calls =>
          /\ SerialError
          /\ last.was_connected
          /\ calls = last.calls + 1
    /\ last.op \in {"__init__", "connect", "disconnect", "NanoKicker"} =>
          calls = last.calls
    /\ ~last.was_connected => calls = last.calls

\* a disconnect() that closed the port of a Motherboard with a callback
C26_Witness ==
    /\ last.op = "disconnect"
    /\ last.was_connected
    /\ disconnect_callback
    /\ Events("close") # {}
    /\ calls = 0

====
